---- MODULE Spec2Model ----
(***************************************************************************)
(* Model of the IMQS migrator (main.go): the reconciliation of a database  *)
(* with an ordered list of SQL migration files.  File names are sequences  *)
(* of one-character strings, so that the name functions of the program     *)
(* (filepath.Base, strings.Split, strconv.ParseInt, strings.ToLower) are   *)
(* computed as the program computes them.                                  *)
(***************************************************************************)
EXTENDS Integers, Sequences, FiniteSets, TLC

----------------------------------------------------------------------------
(* Bounds of the model *)

\* longest file list handed to runMigrations
MaxFiles == 3
\* events from outside in a behaviour: a statement that fails (lost
\* connection), a process that is killed
MaxFaults == 1
\* largest version number in an Albion table before the first run
\* entries of migrationsRoot
MaxDirs == 3

MaxLegacyVersion == 2

----------------------------------------------------------------------------
(* Characters and strings *)

Digits == <<"0", "1", "2", "3", "4", "5", "6", "7", "8", "9">>
UpperChars == <<"A", "B", "C", "D", "E", "F", "G", "H", "I", "J", "K", "L", "M",
                "N", "O", "P", "Q", "R", "S", "T", "U", "V", "W", "X", "Y", "Z">>
LowerChars == <<"a", "b", "c", "d", "e", "f", "g", "h", "i", "j", "k", "l", "m",
                "n", "o", "p", "q", "r", "s", "t", "u", "v", "w", "x", "y", "z">>

\* the characters of the model in byte order: + - . / 0-9 A-Z _ a-z
ByteOrder == <<"+", "-", ".", "/">> \o Digits \o UpperChars \o <<"_">> \o LowerChars

Ord(c) == CHOOSE i \in 1..Len(ByteOrder) : ByteOrder[i] = c

IsDigit(c) == \E i \in 1..Len(Digits) : Digits[i] = c

DigitValue(c) == (CHOOSE i \in 1..Len(Digits) : Digits[i] = c) - 1

\* byte-wise comparison of two strings (sort.Strings inside filepath.Walk)
RECURSIVE LexLess(_, _)
LexLess(a, b) ==
    IF b = <<>> THEN FALSE
    ELSE IF a = <<>> THEN TRUE
    ELSE IF a[1] # b[1] THEN Ord(a[1]) < Ord(b[1])
    ELSE LexLess(Tail(a), Tail(b))

\* strings.ToLower on one character
ToLowerChar(c) ==
    IF \E i \in 1..Len(UpperChars) : UpperChars[i] = c
    THEN LowerChars[CHOOSE i \in 1..Len(UpperChars) : UpperChars[i] = c]
    ELSE c

ToLower(s) == [i \in 1..Len(s) |-> ToLowerChar(s[i])]

\* strings.Split(s, sep) for a one-character separator
RECURSIVE SplitFrom(_, _, _)
SplitFrom(s, sep, cur) ==
    IF s = <<>> THEN <<cur>>
    ELSE IF s[1] = sep THEN <<cur>> \o SplitFrom(Tail(s), sep, <<>>)
    ELSE SplitFrom(Tail(s), sep, Append(cur, s[1]))

Split(s, sep) == SplitFrom(s, sep, <<>>)

\* filepath.Base: what follows the last "/"
Base(path) ==
    LET slashes == {i \in 1..Len(path) : path[i] = "/"}
        last == IF slashes = {} THEN 0
                ELSE CHOOSE i \in slashes : \A j \in slashes : j <= i
    IN SubSeq(path, last + 1, Len(path))

\* s[:len(s)-4], the name without ".sql"
StripExt(s) == SubSeq(s, 1, Len(s) - 4)

MaxInt32 == 2147483647

RECURSIVE DecimalValue(_)
DecimalValue(s) ==
    IF s = <<>> THEN 0
    ELSE 10 * DecimalValue(SubSeq(s, 1, Len(s) - 1)) + DigitValue(s[Len(s)])

IsNumber(s) == s # <<>> /\ \A i \in 1..Len(s) : IsDigit(s[i])

\* strconv.ParseInt(s, 10, 32) with its error dropped: 0 on a syntax error,
\* the largest 32-bit value on a range error.  A name holds no "-" after the
\* split, so the only sign is "+".
ParseInt(s) ==
    LET d == IF s # <<>> /\ s[1] = "+" THEN Tail(s) ELSE s
    IN IF ~IsNumber(d) THEN 0
       ELSE IF Len(d) > 10 \/ DecimalValue(d) > MaxInt32 THEN MaxInt32
       ELSE DecimalValue(d)

\* the decimal text of a number, as database/sql converts an integer column
\* scanned into a string
RECURSIVE Itoa(_)
Itoa(n) == IF n < 10 THEN <<Digits[n + 1]>> ELSE Append(Itoa(n \div 10), Digits[(n % 10) + 1])

----------------------------------------------------------------------------
(* Names of migration files *)

Zeros == <<"0", "0", "0", "0">>

legacyMigrationVersion(sqlfile) ==
    LET s == StripExt(Base(sqlfile))
        parts == Split(s, "-")
    IN IF Len(parts) # 2 \/ parts[1] # Zeros \/ Len(parts[2]) = 0
       THEN [version |-> 0, isLegacy |-> FALSE]
       ELSE [version |-> ParseInt(parts[2]), isLegacy |-> TRUE]

isLegacy(file) == legacyMigrationVersion(file).isLegacy

migrationNameFromFile(filename) == ToLower(StripExt(Base(filename)))

RECURSIVE maxLegacyFrom(_, _)
maxLegacyFrom(files, m) ==
    IF files = <<>> THEN m
    ELSE LET r == legacyMigrationVersion(Head(files))
         IN maxLegacyFrom(Tail(files), IF r.isLegacy /\ r.version > m THEN r.version ELSE m)

maxLegacyMigrationVersion(files) == maxLegacyFrom(files, 0)

----------------------------------------------------------------------------
(* The migration files *)

Dir == <<"m", "/">>
DotSql == <<".", "s", "q", "l">>
Path(name) == Dir \o name \o DotSql

\* 0000-0001.sql: a legacy migration
FileLegacy1 == Path(<<"0", "0", "0", "0", "-", "0", "0", "0", "1">>)
\* 0000-X.sql and 0000-x.sql: "0000-" followed by something that is no number;
\* two files with one migration name
FileLegacyX == Path(<<"0", "0", "0", "0", "-", "X">>)
FileLegacyx == Path(<<"0", "0", "0", "0", "-", "x">>)
\* 0000-0001-a.sql: three parts, sorts before 0000-0001.sql
FileEarly == Path(<<"0", "0", "0", "0", "-", "0", "0", "0", "1", "-", "a">>)
\* 2018-a.sql: a migration of this system
FileStd == Path(<<"2", "0", "1", "8", "-", "a">>)

\* 0000-0002.sql: a second legacy migration
FileLegacy2 == Path(<<"0", "0", "0", "0", "-", "0", "0", "0", "2">>)

AllFiles == {FileEarly, FileLegacy1, FileLegacyX, FileLegacyx, FileStd}

\* every file of the model
KnownFiles == AllFiles \cup {FileLegacy2}

Range(seq) == {seq[i] : i \in 1..Len(seq)}

NamesOf(files) == {migrationNameFromFile(f) : f \in files}

\* filepath.Walk hands the files of one directory over in lexical order
RECURSIVE Walk(_)
Walk(S) ==
    IF S = {} THEN <<>>
    ELSE LET m == CHOOSE x \in S : \A y \in S \ {x} : LexLess(x, y)
         IN <<m>> \o Walk(S \ {m})

FileLists == {Walk(S) : S \in {T \in SUBSET AllFiles : Cardinality(T) \in 1..MaxFiles}}

----------------------------------------------------------------------------
(* Connection descriptors *)

Postgres == <<"p", "o", "s", "t", "g", "r", "e", "s">>

\* the fields of a descriptor put together with the separator between them
RECURSIVE Join(_, _)
Join(parts, sep) ==
    IF parts = <<>> THEN <<>>
    ELSE IF Len(parts) = 1 THEN parts[1]
    ELSE parts[1] \o <<sep>> \o Join(Tail(parts), sep)

\* dbCon{}
NoCon == [driver |-> <<>>, host |-> <<>>, port |-> <<>>, dbname |-> <<>>,
          user |-> <<>>, password |-> <<>>, sslmode |-> <<>>]

\* parseDBConStr without the test of the driver
parseAnyDriver(str) ==
    LET parts == Split(str, ":")
    IN IF Len(parts) # 6
       THEN [con |-> NoCon, err |-> "parts"]
       ELSE [con |-> [driver |-> parts[1], host |-> parts[2], port |-> parts[3],
                      dbname |-> parts[4], user |-> parts[5], password |-> parts[6],
                      sslmode |-> <<>>],
             err |-> "nil"]

\* parseDBConStr: the descriptor and the error ("nil" when there is none)
parseDBConStr(str) ==
    LET parts == Split(str, ":")
    IN IF Len(parts) # 6
       THEN [con |-> NoCon, err |-> "parts"]
       ELSE LET c == [driver |-> parts[1], host |-> parts[2], port |-> parts[3],
                      dbname |-> parts[4], user |-> parts[5], password |-> parts[6],
                      sslmode |-> <<>>]
            IN IF c.driver # Postgres
               THEN [con |-> c, err |-> "driver"]
               ELSE [con |-> c, err |-> "nil"]

HostOpt == <<"h", "o", "s", "t", "=">>
DbnameOpt == <<" ", "d", "b", "n", "a", "m", "e", "=">>
UserOpt == <<" ", "u", "s", "e", "r", "=">>
PortOpt == <<" ", "p", "o", "r", "t", "=">>
PasswordOpt == <<" ", "p", "a", "s", "s", "w", "o", "r", "d", "=">>
SslmodeOpt == <<" ", "s", "s", "l", "m", "o", "d", "e", "=">>
Disable == <<"d", "i", "s", "a", "b", "l", "e">>

\* makeConStr without the password
makeConStrNoPassword(c) ==
    HostOpt \o c.host \o DbnameOpt \o c.dbname \o UserOpt \o c.user
    \o (IF c.port # <<"0">> /\ c.port # <<>> THEN PortOpt \o c.port ELSE <<>>)
    \o SslmodeOpt \o Disable

\* dbCon.makeConStr
makeConStr(c) ==
    HostOpt \o c.host \o DbnameOpt \o c.dbname \o UserOpt \o c.user
    \o (IF c.port # <<"0">> /\ c.port # <<>> THEN PortOpt \o c.port ELSE <<>>)
    \o (IF c.password # <<>> THEN PasswordOpt \o c.password ELSE <<>>)
    \o (IF c.sslmode # <<>> THEN SslmodeOpt \o c.sslmode ELSE SslmodeOpt \o Disable)

\* dbCon.string: host:dbname
string(c) == c.host \o <<":">> \o c.dbname

\* root := con; root.dbname = "postgres"
rootOf(c) == [c EXCEPT !.dbname = Postgres]

\* validDBNameRegex.MatchString: ^[_\-a-zA-Z0-9]+$
validDBNameRegex(name) ==
    /\ name # <<>>
    /\ \A i \in 1..Len(name) :
          \/ name[i] \in {"_", "-"}
          \/ \E j \in 1..Len(LowerChars) : LowerChars[j] = name[i]
          \/ \E j \in 1..Len(UpperChars) : UpperChars[j] = name[i]
          \/ IsDigit(name[i])

\* the descriptors handed to the program: six fields with every combination
\* of a supported or unsupported driver, an absent, zero or given port, a
\* database name that is or is not an identifier, an absent or given password;
\* and strings of zero, five and seven fields
Drivers == {Postgres, <<"p", "g">>}
Ports == {<<>>, <<"0">>, <<"5">>}
DbNames == {<<"d">>, <<"d", ";", "x">>}
Passwords == {<<>>, <<"p">>}

SixFields ==
    {Join(<<d, <<"h">>, pt, n, <<"u">>, pw>>, ":") :
        d \in Drivers, pt \in Ports, n \in DbNames, pw \in Passwords}

ConStrs ==
    SixFields \cup {<<>>,
                    Join(<<Postgres, <<"h">>, <<"5">>, <<"d">>, <<"u">>>>, ":"),
                    Join(<<Postgres, <<"h">>, <<"5">>, <<"d">>, <<"u">>, <<"p">>, <<"x">>>>, ":")}

\* postgres:h:0:d:u:p, the descriptor of the runs of one database
ConStr == Join(<<Postgres, <<"h">>, <<"0">>, <<"d">>, <<"u">>, <<"p">>>>, ":")

----------------------------------------------------------------------------
(* The database *)

\* data_type of schema_migrations.version as information_schema reports it
TypeInteger == <<"i", "n", "t", "e", "g", "e", "r">>
TypeVarchar == <<"c", "h", "a", "r", "a", "c", "t", "e", "r", " ", "v", "a", "r", "y", "i", "n", "g">>

NeverContains(s, sub) == FALSE

\* strings.Index(s, sub) != -1
Contains(s, sub) ==
    \E i \in 0..(Len(s) - Len(sub)) : SubSeq(s, i + 1, i + Len(sub)) = sub

SetMax(S) == CHOOSE x \in S : \A y \in S : y <= x

StringMax(S) == CHOOSE x \in S : \A y \in S \ {x} : LexLess(y, x)

VARIABLES
    sqlFiles,   \* the file list of every run
    badSQL,     \* files whose SQL the database rejects
    faults,     \* statements that have failed for an outside reason
    dbType,     \* <<>> without a schema_migrations table, else the type of its column
    dbInts,     \* rows of the Albion table
    dbNames,    \* rows of the table of this system
    effects,    \* per file, how often its SQL has been committed
    switched,   \* rows recorded by a switchover, never run by this system
    pc, idx, caller, existing, nrun, tx, result,
    dbStr,      \* the connection descriptor handed to upgrade
    entry,      \* the way into upgrade, and the names it has matched against validDBNameRegex
    dbExists,   \* the server has the database the descriptor names
    created,    \* per run, the names of its CREATE DATABASE statements
    handles,    \* per run, the *sql.DB handles it has opened: the database, the
                \* connection string, open or closed
    db,         \* per run, the handle connectOrCreate returned (0: none)
    executed,   \* files whose SQL this run has sent to the database, in order
    committed,  \* files this run has committed, in order
    startDB,    \* the database when the run began
    prev,       \* what the run before this one left
    dirs,       \* the entries of migrationsRoot in the order of ioutil.ReadDir
    cur,        \* the entry the loop of upgradeAll is at (0: upgradeAll does not run)
    store,      \* per entry, the database the config service names for it
    listening   \* serviceCmd has called http.ListenAndServe

svcVars == <<dirs, cur, store, listening>>
envVars == <<sqlFiles, badSQL, dbStr, entry, svcVars>>
conVars == <<dbExists, created, handles, db>>
dbVars == <<dbType, dbInts, dbNames, effects, switched>>
procVars == <<pc, idx, caller, existing, nrun, tx, result>>
histVars == <<executed, committed, startDB, prev>>
vars == <<envVars, conVars, faults, dbVars, procVars, histVars>>

Procs == {1, 2}

NoTx == [open |-> FALSE, sql |-> FALSE, ddl |-> FALSE, ins |-> {}]
\* what a run returns: the kind of error and the values its text carries; at
\* and loop tell where the run stopped (they are no part of the error)
\* upToDate: the run has printed "Database is up to date"
NoResult == [kind |-> "none", info |-> <<>>, at |-> "none", loop |-> "none",
             upToDate |-> FALSE]
Ok == [kind |-> "ok", info |-> <<>>, at |-> "applyLoop", loop |-> "none", upToDate |-> FALSE]
NoRun == [result |-> NoResult, executed |-> <<>>, committed |-> <<>>, existing |-> {},
          bad |-> {}, start |-> <<>>, end |-> <<>>]

Database == [type |-> dbType, ints |-> dbInts, names |-> dbNames, effects |-> effects]

\* databases a first run may find: none of the three states is excluded
FreshDatabases == {[type |-> <<>>, ints |-> {}, names |-> {}, applied |-> {}]}
LegacyDatabases ==
    {[type |-> TypeInteger, ints |-> I, names |-> {}, applied |-> {}] :
        I \in SUBSET (0..MaxLegacyVersion)}
CurrentDatabases ==
    {[type |-> TypeVarchar, ints |-> {}, names |-> NamesOf(S), applied |-> S] :
        S \in {T \in SUBSET AllFiles : Cardinality(NamesOf(T)) = Cardinality(T)}}

\* no process has called runMigrations
NoRuns ==
    /\ idx = [p \in Procs |-> 1]
    /\ caller = [p \in Procs |-> "none"]
    /\ existing = [p \in Procs |-> {}]
    /\ nrun = [p \in Procs |-> 0]
    /\ tx = [p \in Procs |-> NoTx]
    /\ result = [p \in Procs |-> NoResult]
    /\ executed = [p \in Procs |-> <<>>]
    /\ committed = [p \in Procs |-> <<>>]
    /\ startDB = [p \in Procs |-> <<>>]
    /\ prev = [p \in Procs |-> NoRun]
    /\ created = [p \in Procs |-> <<>>]
    /\ handles = [p \in Procs |-> <<>>]
    /\ db = [p \in Procs |-> 0]

\* the program has not been started as a service
NoService ==
    /\ dirs = <<>>
    /\ cur = 0
    /\ store = <<>>
    /\ listening = FALSE

\* the state before the first run: a file list, at most maxBad of its files
\* with SQL the database rejects, a database (only one without the table may
\* be missing on the server), and firstFault outside events used up
StartFrom(lists, databases, maxBad, firstFault) ==
    /\ sqlFiles \in lists
    /\ badSQL \in {B \in SUBSET Range(sqlFiles) : Cardinality(B) <= maxBad}
    /\ faults = firstFault
    /\ \E d \in databases :
          /\ dbType = d.type
          /\ dbExists \in (IF d.type = <<>> THEN BOOLEAN ELSE {TRUE})
          /\ dbInts = d.ints
          /\ dbNames = d.names
          /\ effects = [f \in KnownFiles |-> IF f \in d.applied THEN 1 ELSE 0]
    /\ switched = {}
    /\ NoRuns
    /\ NoService

\* upgrade has been called with the descriptor of the database and has
\* collected the files
StartIdle(lists, maxBad, firstFault, way) ==
    /\ StartFrom(lists, FreshDatabases \cup LegacyDatabases \cup CurrentDatabases,
                 maxBad, firstFault)
    /\ pc = [p \in Procs |-> "idle"]
    /\ dbStr = ConStr
    /\ entry = way

Start(maxBad, firstFault) ==
    StartIdle(FileLists, maxBad, firstFault, [path |-> "cli", checked |-> {}])

Init == Start(1, 0)

----------------------------------------------------------------------------
(* Helpers of the steps *)

\* a statement may fail for an outside reason while the budget lasts
MayFail == IF faults < MaxFaults THEN {FALSE, TRUE} ELSE {FALSE}

Count(fail) == faults' = IF fail THEN faults + 1 ELSE faults

\* the run of p ends with an error; an open transaction is rolled back
Fails(p, kind, info) ==
    /\ result' = [result EXCEPT ![p] = [kind |-> kind, info |-> info, at |-> pc[p],
                                        loop |-> caller[p], upToDate |-> FALSE]]
    /\ pc' = [pc EXCEPT ![p] = "done"]
    /\ tx' = [tx EXCEPT ![p] = NoTx]

Goto(p, label) == pc' = [pc EXCEPT ![p] = label]

\* another transaction holds the ACCESS EXCLUSIVE lock of DROP TABLE
TableLocked(p) == \E q \in Procs \ {p} : tx[q].open /\ tx[q].ddl

\* another transaction holds any lock on schema_migrations
TableInUse(p) == \E q \in Procs \ {p} : tx[q].open /\ (tx[q].ddl \/ tx[q].ins # {})

\* another transaction has inserted the same key and not yet ended
KeyPending(p, name) == \E q \in Procs \ {p} : tx[q].open /\ name \in tx[q].ins

\* first index from i on whose file is a legacy migration, 0 if none
NextLegacy(i) ==
    LET js == {j \in i..Len(sqlFiles) : isLegacy(sqlFiles[j])}
    IN IF js = {} THEN 0 ELSE CHOOSE j \in js : \A k \in js : j <= k

\* the loop without the test of existing[migname]: the next file, applied or not
NextUnchecked(i, have) == IF i <= Len(sqlFiles) THEN i ELSE 0

\* first index from i on whose migration name is not in the set read at the start
NextMissing(i, have) ==
    LET js == {j \in i..Len(sqlFiles) : migrationNameFromFile(sqlFiles[j]) \notin have}
    IN IF js = {} THEN 0 ELSE CHOOSE j \in js : \A k \in js : j <= k

----------------------------------------------------------------------------
(* runMigrations *)

\* the descriptor parseDBConStr has made of dbStr
con == parseDBConStr(dbStr).con

\* sql.Open has returned a handle for the connection string
Opened(p, c) ==
    handles' = [handles EXCEPT ![p] = Append(@, [to |-> c.dbname, dsn |-> makeConStr(c),
                                                 open |-> TRUE])]

\* db.Close() on the i-th handle of the run
Closed(hs, i) == [j \in 1..Len(hs) |-> IF j = i THEN [hs[j] EXCEPT !.open = FALSE] ELSE hs[j]]

\* runMigrations is called: parseDBConStr(dbStr)
StartRun(p) ==
    /\ pc[p] = "idle"
    /\ idx' = [idx EXCEPT ![p] = 1]
    /\ caller' = [caller EXCEPT ![p] = "none"]
    /\ existing' = [existing EXCEPT ![p] = {}]
    /\ nrun' = [nrun EXCEPT ![p] = 0]
    /\ executed' = [executed EXCEPT ![p] = <<>>]
    /\ committed' = [committed EXCEPT ![p] = <<>>]
    /\ startDB' = [startDB EXCEPT ![p] = Database]
    /\ created' = [created EXCEPT ![p] = <<>>]
    /\ handles' = [handles EXCEPT ![p] = <<>>]
    /\ db' = [db EXCEPT ![p] = 0]
    /\ IF parseDBConStr(dbStr).err # "nil"
       THEN Fails(p, parseDBConStr(dbStr).err, <<>>)
       ELSE /\ Goto(p, "connect")
            /\ tx' = [tx EXCEPT ![p] = NoTx]
            /\ result' = [result EXCEPT ![p] = NoResult]
    /\ UNCHANGED <<envVars, dbExists, faults, dbVars, prev>>

----------------------------------------------------------------------------
(* connectOrCreate *)

\* sql.Open(con.driver, con.makeConStr()) and the dummy query SELECT 1: when
\* both succeed the handle is returned; when the query fails the handle is
\* left as it is and the program turns to the database "postgres"
Connect(p) ==
    /\ pc[p] = "connect"
    /\ \E fail \in MayFail, opened \in BOOLEAN :
          /\ ~fail => opened
          /\ Count(fail)
          /\ IF opened THEN Opened(p, con) ELSE UNCHANGED handles
          /\ IF ~fail /\ dbExists
             THEN db' = [db EXCEPT ![p] = Len(handles[p]) + 1] /\ Goto(p, "bootstrap")
             ELSE UNCHANGED db /\ Goto(p, "connectRoot")
    /\ UNCHANGED <<envVars, dbExists, created, dbVars, idx, caller, existing, nrun, tx, result,
                   histVars>>

\* root := con; root.dbname = "postgres"; sql.Open(root.driver, root.makeConStr())
ConnectRoot(p) ==
    /\ pc[p] = "connectRoot"
    /\ \E fail \in MayFail :
          /\ Count(fail)
          /\ IF fail
             THEN Fails(p, "connect", <<string(rootOf(con)), string(con)>>) /\ UNCHANGED handles
             ELSE /\ Opened(p, rootOf(con))
                  /\ Goto(p, "createDatabase")
                  /\ UNCHANGED <<tx, result>>
    /\ UNCHANGED <<envVars, dbExists, created, db, dbVars, idx, caller, existing, nrun, histVars>>

\* CREATE DATABASE without db.Close() of the handle to "postgres"
CreateDatabaseRootLeftOpen(p) ==
    /\ pc[p] = "createDatabase"
    /\ created' = [created EXCEPT ![p] = Append(@, con.dbname)]
    /\ IF dbExists
       THEN Fails(p, "create", <<string(con)>>) /\ UNCHANGED dbExists
       ELSE /\ dbExists' = validDBNameRegex(con.dbname)
            /\ Goto(p, "reconnect")
            /\ UNCHANGED <<tx, result>>
    /\ UNCHANGED <<envVars, handles, db, faults, dbVars, idx, caller, existing, nrun, histVars>>

\* db.Exec("CREATE DATABASE " + con.dbname) and db.Close() of the handle to
\* "postgres".  The server refuses a database that exists; what it makes of a
\* name that is no identifier is not known to the program: it may report an
\* error, or accept the statement without making the database of that name.
CreateDatabase(p) ==
    /\ pc[p] = "createDatabase"
    /\ created' = [created EXCEPT ![p] = Append(@, con.dbname)]
    /\ handles' = [handles EXCEPT ![p] = Closed(@, Len(@))]
    /\ \E fail \in MayFail, accepted \in BOOLEAN :
          /\ validDBNameRegex(con.dbname) => accepted
          /\ Count(fail)
          /\ IF fail \/ dbExists \/ ~accepted
             THEN Fails(p, "create", <<string(con)>>) /\ UNCHANGED dbExists
             ELSE /\ dbExists' = validDBNameRegex(con.dbname)
                  /\ Goto(p, "reconnect")
                  /\ UNCHANGED <<tx, result>>
    /\ UNCHANGED <<envVars, db, dbVars, idx, caller, existing, nrun, histVars>>

\* sql.Open(con.driver, con.makeConStr()) on the database just created
Reconnect(p) ==
    /\ pc[p] = "reconnect"
    /\ \E fail \in MayFail :
          /\ Count(fail)
          /\ IF fail
             THEN Fails(p, "reconnect", <<string(con)>>) /\ UNCHANGED <<handles, db>>
             ELSE /\ Opened(p, con)
                  /\ db' = [db EXCEPT ![p] = Len(handles[p]) + 1]
                  /\ Goto(p, "bootstrap")
                  /\ UNCHANGED <<tx, result>>
    /\ UNCHANGED <<envVars, dbExists, created, dbVars, idx, caller, existing, nrun, histVars>>

----------------------------------------------------------------------------
(* bootstrap *)

\* bootstrap: SELECT data_type FROM information_schema.columns ...
BootstrapDetect(p) ==
    /\ pc[p] = "bootstrap"
    /\ \E fail \in MayFail :
          /\ Count(fail)
          /\ IF fail \/ ~dbExists THEN Fails(p, "inspect", <<>>)
             ELSE /\ IF dbType = <<>> THEN Goto(p, "createTable")
                     ELSE IF Contains(dbType, <<"c", "h", "a", "r">>) THEN Goto(p, "getMigrations")
                     ELSE Goto(p, "readMax")
                  /\ UNCHANGED <<tx, result>>
    /\ UNCHANGED <<envVars, conVars, dbVars, idx, caller, existing, nrun, histVars>>

\* bootstrap on a fresh database: db.Exec(metaTableCreateStatement)
CreateMetaTable(p) ==
    /\ pc[p] = "createTable"
    /\ \E fail \in MayFail :
          /\ Count(fail)
          /\ IF fail \/ dbType # <<>>
             THEN Fails(p, "driver", <<>>) /\ UNCHANGED <<dbVars, idx>>
             ELSE /\ dbType' = TypeVarchar
                  /\ dbInts' = {}
                  /\ dbNames' = {}
                  /\ idx' = [idx EXCEPT ![p] = 1]
                  /\ Goto(p, "legacyLoop")
                  /\ UNCHANGED <<effects, switched, tx, result>>
    /\ UNCHANGED <<envVars, conVars, caller, existing, nrun, histVars>>

\* runLegacyMigrations: the next legacy file is handed to runMigration
RunLegacyMigrations(p) ==
    /\ pc[p] = "legacyLoop"
    /\ LET j == NextLegacy(idx[p])
       IN IF j = 0
          THEN Goto(p, "getMigrations") /\ UNCHANGED <<idx, caller>>
          ELSE /\ idx' = [idx EXCEPT ![p] = j]
               /\ caller' = [caller EXCEPT ![p] = "legacyLoop"]
               /\ Goto(p, "rmBegin")
    /\ UNCHANGED <<envVars, conVars, faults, dbVars, existing, nrun, tx, result, histVars>>

\* runMigration: ioutil.ReadFile, db.Begin
RmBegin(p) ==
    /\ pc[p] = "rmBegin"
    /\ \E fail \in MayFail :
          /\ Count(fail)
          /\ IF fail THEN Fails(p, "driver", <<>>)
             ELSE /\ tx' = [tx EXCEPT ![p] = [NoTx EXCEPT !.open = TRUE]]
                  /\ Goto(p, "rmExec")
                  /\ UNCHANGED result
    /\ UNCHANGED <<envVars, conVars, dbVars, idx, caller, existing, nrun, histVars>>

\* the error of runMigration dropped by the loop that called it
RmExecErrorIgnored(p) ==
    /\ pc[p] = "rmExec"
    /\ executed' = [executed EXCEPT ![p] = Append(@, sqlFiles[idx[p]])]
    /\ IF sqlFiles[idx[p]] \in badSQL
       THEN /\ tx' = [tx EXCEPT ![p] = NoTx]
            /\ idx' = [idx EXCEPT ![p] = @ + 1]
            /\ Goto(p, caller[p])
       ELSE /\ tx' = [tx EXCEPT ![p].sql = TRUE]
            /\ Goto(p, "rmInsert")
            /\ UNCHANGED idx
    /\ UNCHANGED <<envVars, conVars, faults, dbVars, caller, existing, nrun, result, committed,
                   startDB, prev>>

\* db.Exec in place of tx.Exec: the SQL is committed as soon as it has run
RmExecOutsideTransaction(p) ==
    /\ pc[p] = "rmExec"
    /\ executed' = [executed EXCEPT ![p] = Append(@, sqlFiles[idx[p]])]
    /\ IF sqlFiles[idx[p]] \in badSQL
       THEN Fails(p, "driver", <<>>) /\ UNCHANGED effects
       ELSE /\ effects' = [effects EXCEPT ![sqlFiles[idx[p]]] = @ + 1]
            /\ Goto(p, "rmInsert")
            /\ UNCHANGED <<tx, result>>
    /\ UNCHANGED <<envVars, conVars, faults, dbType, dbInts, dbNames, switched, idx, caller, existing,
                   nrun, committed, startDB, prev>>

\* runMigration: tx.Exec(string(sql))
RmExec(p) ==
    /\ pc[p] = "rmExec"
    /\ executed' = [executed EXCEPT ![p] = Append(@, sqlFiles[idx[p]])]
    /\ \E fail \in MayFail :
          /\ Count(fail)
          /\ IF fail \/ sqlFiles[idx[p]] \in badSQL
             THEN Fails(p, "driver", <<>>)
             ELSE /\ tx' = [tx EXCEPT ![p].sql = TRUE]
                  /\ Goto(p, "rmInsert")
                  /\ UNCHANGED result
    /\ UNCHANGED <<envVars, conVars, dbVars, idx, caller, existing, nrun, committed, startDB, prev>>

RmInsertSkipped(p) ==
    /\ pc[p] = "rmInsert"
    /\ Goto(p, "rmCommit")
    /\ UNCHANGED <<envVars, conVars, faults, dbVars, idx, caller, existing, nrun, tx, result, histVars>>

\* runMigration: INSERT INTO schema_migrations (version) VALUES (migname)
RmInsert(p) ==
    /\ pc[p] = "rmInsert"
    /\ LET migname == migrationNameFromFile(sqlFiles[idx[p]])
       IN /\ ~TableLocked(p)
          /\ ~KeyPending(p, migname)
          /\ \E fail \in MayFail :
                /\ Count(fail)
                /\ IF fail \/ dbType # TypeVarchar \/ migname \in dbNames
                   THEN Fails(p, "driver", <<>>)
                   ELSE /\ tx' = [tx EXCEPT ![p].ins = @ \cup {migname}]
                        /\ Goto(p, "rmCommit")
                        /\ UNCHANGED result
    /\ UNCHANGED <<envVars, conVars, dbVars, idx, caller, existing, nrun, histVars>>

\* a commit that leaves the rows of the transaction as the only rows
RmCommitReplacesRows(p) ==
    /\ pc[p] = "rmCommit"
    /\ dbNames' = tx[p].ins
    /\ effects' = [effects EXCEPT ![sqlFiles[idx[p]]] = IF tx[p].sql THEN @ + 1 ELSE @]
    /\ tx' = [tx EXCEPT ![p] = NoTx]
    /\ committed' = [committed EXCEPT ![p] = Append(@, sqlFiles[idx[p]])]
    /\ idx' = [idx EXCEPT ![p] = @ + 1]
    /\ Goto(p, caller[p])
    /\ UNCHANGED <<envVars, conVars, faults, dbType, dbInts, switched, result, caller, existing,
                   nrun, executed, startDB, prev>>

\* runMigration: tx.Commit, and the return into the loop that called it
RmCommit(p) ==
    /\ pc[p] = "rmCommit"
    /\ \E fail \in MayFail :
          /\ Count(fail)
          /\ IF fail
             THEN Fails(p, "driver", <<>>) /\ UNCHANGED <<dbVars, idx, committed>>
             ELSE /\ dbNames' = dbNames \cup tx[p].ins
                  /\ effects' = [effects EXCEPT ![sqlFiles[idx[p]]] =
                                    IF tx[p].sql THEN @ + 1 ELSE @]
                  /\ tx' = [tx EXCEPT ![p] = NoTx]
                  /\ committed' = [committed EXCEPT ![p] = Append(@, sqlFiles[idx[p]])]
                  /\ idx' = [idx EXCEPT ![p] = @ + 1]
                  /\ Goto(p, caller[p])
                  /\ UNCHANGED <<dbType, dbInts, switched, result>>
    /\ UNCHANGED <<envVars, conVars, caller, existing, nrun, executed, startDB, prev>>

----------------------------------------------------------------------------
(* switchoverFromAlbion *)

VersionsAtLeast(maxDB, maxAvailable) == maxDB < maxAvailable

\* if maxDB != maxAvailable
VersionMismatch(maxDB, maxAvailable) == maxDB # maxAvailable

\* a Scan that reads the NULL of an empty table as 0
ScanMaxNullAsZero ==
    IF dbType = TypeInteger
    THEN IF dbInts = {} THEN <<0>> ELSE <<SetMax(dbInts)>>
    ELSE <<>>

\* what Scan(&maxDB) reads from SELECT max(version): a number, or <<>> when
\* the query or the conversion fails (no table, NULL of an empty table, text
\* that is no number)
ScanMax ==
    IF dbType = <<>> THEN <<>>
    ELSE IF dbType = TypeInteger
         THEN IF dbInts = {} THEN <<>> ELSE <<SetMax(dbInts)>>
         ELSE IF dbNames = {} \/ ~IsNumber(StringMax(dbNames)) THEN <<>>
              ELSE <<DecimalValue(StringMax(dbNames))>>

\* the check that the Albion system has run every legacy migration
SwitchoverCheck(p) ==
    /\ pc[p] = "readMax"
    /\ ~TableLocked(p)
    /\ \E fail \in MayFail :
          /\ Count(fail)
          /\ LET maxAvailable == maxLegacyMigrationVersion(sqlFiles)
             IN IF fail \/ ScanMax = <<>>
                THEN Fails(p, "readmax", <<>>)
                ELSE IF VersionMismatch(ScanMax[1], maxAvailable)
                     THEN Fails(p, "mismatch", <<maxAvailable, ScanMax[1]>>)
                     ELSE Goto(p, "swBegin") /\ UNCHANGED <<tx, result>>
    /\ UNCHANGED <<envVars, conVars, dbVars, idx, caller, existing, nrun, histVars>>

\* db.Begin
SwitchoverBegin(p) ==
    /\ pc[p] = "swBegin"
    /\ \E fail \in MayFail :
          /\ Count(fail)
          /\ IF fail THEN Fails(p, "driver", <<>>)
             ELSE /\ tx' = [tx EXCEPT ![p] = [NoTx EXCEPT !.open = TRUE]]
                  /\ Goto(p, "swDrop")
                  /\ UNCHANGED result
    /\ UNCHANGED <<envVars, conVars, dbVars, idx, caller, existing, nrun, histVars>>

\* the two statements sent over db, outside the transaction: they take
\* effect at once and no rollback undoes them
SwitchoverDropCreateOutsideTransaction(p) ==
    /\ pc[p] = "swDrop"
    /\ dbType' = TypeVarchar
    /\ dbInts' = {}
    /\ dbNames' = {}
    /\ idx' = [idx EXCEPT ![p] = 1]
    /\ Goto(p, "swInsert")
    /\ UNCHANGED <<envVars, conVars, faults, effects, switched, caller, existing, nrun, tx,
                   result, histVars>>

\* tx.Exec("DROP TABLE schema_migrations; " + metaTableCreateStatement)
SwitchoverDropCreate(p) ==
    /\ pc[p] = "swDrop"
    /\ ~TableInUse(p)
    /\ \E fail \in MayFail :
          /\ Count(fail)
          /\ IF fail \/ dbType = <<>>
             THEN Fails(p, "driver", <<>>) /\ UNCHANGED idx
             ELSE /\ tx' = [tx EXCEPT ![p].ddl = TRUE]
                  /\ idx' = [idx EXCEPT ![p] = 1]
                  /\ Goto(p, "swInsert")
                  /\ UNCHANGED result
    /\ UNCHANGED <<envVars, conVars, dbVars, caller, existing, nrun, histVars>>

SwitchoverInsertNothing(p) ==
    /\ pc[p] = "swInsert"
    /\ Goto(p, "swCommit")
    /\ UNCHANGED <<envVars, conVars, faults, dbVars, idx, caller, existing, nrun, tx, result, histVars>>

\* the loop that records the legacy migrations without running them: one
\* INSERT for the next legacy file, or the end of the loop
SwitchoverInsert(p) ==
    /\ pc[p] = "swInsert"
    /\ LET j == NextLegacy(idx[p])
       IN IF j = 0
          THEN Goto(p, "swCommit") /\ UNCHANGED <<faults, tx, result, idx>>
          ELSE \E fail \in MayFail :
                  /\ Count(fail)
                  /\ IF fail \/ migrationNameFromFile(sqlFiles[j]) \in tx[p].ins
                     THEN Fails(p, "driver", <<>>) /\ UNCHANGED idx
                     ELSE /\ tx' = [tx EXCEPT ![p].ins = @ \cup {migrationNameFromFile(sqlFiles[j])}]
                          /\ idx' = [idx EXCEPT ![p] = j + 1]
                          /\ UNCHANGED <<pc, result>>
    /\ UNCHANGED <<envVars, conVars, dbVars, caller, existing, nrun, histVars>>

\* the transaction without its CREATE TABLE: the commit leaves no table
SwitchoverCommitNoCreate(p) ==
    /\ pc[p] = "swCommit"
    /\ dbType' = <<>>
    /\ dbInts' = {}
    /\ tx' = [tx EXCEPT ![p] = NoTx]
    /\ Goto(p, "getMigrations")
    /\ UNCHANGED <<envVars, conVars, faults, dbNames, effects, switched, idx, caller, existing,
                   nrun, result, histVars>>

\* tx.Commit: the table of this system replaces the Albion table
SwitchoverCommit(p) ==
    /\ pc[p] = "swCommit"
    /\ \E fail \in MayFail :
          /\ Count(fail)
          /\ IF fail
             THEN Fails(p, "driver", <<>>) /\ UNCHANGED dbVars
             ELSE /\ dbType' = TypeVarchar
                  /\ dbInts' = {}
                  /\ dbNames' = tx[p].ins
                  /\ switched' = tx[p].ins
                  /\ tx' = [tx EXCEPT ![p] = NoTx]
                  /\ Goto(p, "getMigrations")
                  /\ UNCHANGED <<effects, result>>
    /\ UNCHANGED <<envVars, conVars, idx, caller, existing, nrun, histVars>>

----------------------------------------------------------------------------
(* the loop of runMigrations *)

ReadNoVersions == {}

\* the rows of SELECT version FROM schema_migrations, each scanned into a string
ReadVersions == IF dbType = TypeInteger THEN {Itoa(n) : n \in dbInts} ELSE dbNames

getMigrationsInDB(p) ==
    /\ pc[p] = "getMigrations"
    /\ ~TableLocked(p)
    /\ \E fail \in MayFail :
          /\ Count(fail)
          /\ IF fail \/ dbType = <<>>
             THEN Fails(p, "driver", <<>>) /\ UNCHANGED <<existing, nrun, idx>>
             ELSE /\ existing' = [existing EXCEPT ![p] = ReadVersions]
                  /\ nrun' = [nrun EXCEPT ![p] = 0]
                  /\ idx' = [idx EXCEPT ![p] = 1]
                  /\ Goto(p, "applyLoop")
                  /\ UNCHANGED <<tx, result>>
    /\ UNCHANGED <<envVars, conVars, dbVars, caller, histVars>>

\* for _, file := range sqlFiles: the next file whose name is not in existing
\* is handed to runMigration; after the last file the run returns nil
ApplyMissing(p) ==
    /\ pc[p] = "applyLoop"
    /\ LET j == NextMissing(idx[p], existing[p])
       IN IF j = 0
          THEN /\ result' = [result EXCEPT ![p] = [Ok EXCEPT !.upToDate = (nrun[p] = 0)]]
               /\ Goto(p, "done")
               /\ UNCHANGED <<idx, caller, nrun>>
          ELSE /\ nrun' = [nrun EXCEPT ![p] = @ + 1]
               /\ idx' = [idx EXCEPT ![p] = j]
               /\ caller' = [caller EXCEPT ![p] = "applyLoop"]
               /\ Goto(p, "rmBegin")
               /\ UNCHANGED result
    /\ UNCHANGED <<envVars, conVars, faults, dbVars, existing, tx, histVars>>

\* runMigrations has returned: defer db.Close(); upgrade returns to the loop
\* of upgradeAll when that has called it
Finish(p) ==
    /\ pc[p] = "done"
    /\ Goto(p, IF cur = 0 THEN "idle" ELSE "upgradeAll")
    /\ prev' = [prev EXCEPT ![p] = [result |-> result[p], executed |-> executed[p],
                                    committed |-> committed[p], existing |-> existing[p],
                                    bad |-> badSQL, start |-> startDB[p],
                                    end |-> Database]]
    /\ handles' = [handles EXCEPT ![p] = IF db[p] = 0 THEN @ ELSE Closed(@, db[p])]
    /\ UNCHANGED <<envVars, dbExists, created, db, faults, dbVars, idx, caller, existing, nrun,
                   tx, result, executed, committed, startDB>>

\* the process is killed between two steps; the server rolls back what the
\* connection had not committed, and no handle outlives the process
Abort(p) ==
    /\ pc[p] \notin {"entry", "idle", "done"}
    /\ faults < MaxFaults
    /\ faults' = faults + 1
    /\ Fails(p, "aborted", <<>>)
    /\ handles' = [handles EXCEPT ![p] = [j \in 1..Len(@) |-> [@[j] EXCEPT !.open = FALSE]]]
    /\ db' = [db EXCEPT ![p] = 0]
    /\ UNCHANGED <<envVars, dbExists, created, dbVars, idx, caller, existing, nrun, histVars>>

\* between two runs the author of a rejected migration file corrects it
FixFile ==
    /\ \A p \in Procs : pc[p] = "idle"
    /\ \E f \in badSQL : badSQL' = badSQL \ {f}
    /\ UNCHANGED <<sqlFiles, dbStr, entry, svcVars, conVars, faults, dbVars, procVars, histVars>>

Run(p) ==
    \/ StartRun(p)
    \/ Connect(p)
    \/ ConnectRoot(p)
    \/ CreateDatabase(p)
    \/ Reconnect(p)
    \/ BootstrapDetect(p)
    \/ CreateMetaTable(p)
    \/ RunLegacyMigrations(p)
    \/ RmBegin(p)
    \/ RmExec(p)
    \/ RmInsert(p)
    \/ RmCommit(p)
    \/ SwitchoverCheck(p)
    \/ SwitchoverBegin(p)
    \/ SwitchoverDropCreate(p)
    \/ SwitchoverInsert(p)
    \/ SwitchoverCommit(p)
    \/ getMigrationsInDB(p)
    \/ ApplyMissing(p)
    \/ Finish(p)

\* one process at a time: the runs of a behaviour follow one another
Next == Run(1) \/ Abort(1) \/ FixFile

Spec == Init /\ [][Next]_vars

\* two processes against one database (two POSTs to /upgrade/), every file
\* accepted by the database and no failure from outside; the file lists are
\* those shorter than the longest
ConcurrentLists == {l \in FileLists : Len(l) < MaxFiles}

InitConcurrent ==
    StartIdle(ConcurrentLists, 0, MaxFaults, [path |-> "http", checked |-> {<<"d">>}])

NextConcurrent == \E p \in Procs : Run(p)

SpecConcurrent == InitConcurrent /\ [][NextConcurrent]_vars

\* runs against a database without the table or with the Albion table, over
\* lists that may hold two legacy migrations; no SQL is rejected and nothing
\* fails from outside
SwitchoverLists ==
    {Walk(S) : S \in {T \in SUBSET {FileLegacy1, FileLegacy2, FileLegacyX, FileLegacyx, FileStd} :
                          Cardinality(T) \in 1..MaxFiles}}

InitSwitchover ==
    /\ StartFrom(SwitchoverLists, FreshDatabases \cup LegacyDatabases, 0, MaxFaults)
    /\ pc = [p \in Procs |-> "idle"]
    /\ dbStr = ConStr
    /\ entry = [path |-> "cli", checked |-> {}]

NextSwitchover == Run(1)

SpecSwitchover == InitSwitchover /\ [][NextSwitchover]_vars

----------------------------------------------------------------------------
(* The ways into upgrade *)

\* upgrade without the test of len(sqlFiles): runMigrations is called with
\* whatever the directory holds
UpgradeUnchecked(p, str, files, way) ==
    /\ dbStr' = str
    /\ sqlFiles' = files
    /\ entry' = way
    /\ Goto(p, "idle")
    /\ UNCHANGED result

\* upgrade(logfile, db, sqlDir) up to its call of runMigrations: the .sql
\* files of sqlDir are collected, and without any the call returns the error
\* "No SQL files found in <sqlDir>" to where it came from
Upgrade(p, str, files, way) ==
    /\ dbStr' = str
    /\ sqlFiles' = files
    /\ entry' = way
    /\ IF Len(files) = 0
       THEN /\ result' = [result EXCEPT ![p] = [NoResult EXCEPT !.kind = "nofiles",
                                                                !.info = <<Dir>>,
                                                                !.at = pc[p]]]
            /\ UNCHANGED pc
       ELSE /\ Goto(p, "idle")
            /\ UNCHANGED result

\* upgradeCmd: migrator upgrade <logfile> <db> <path to sql files>; the
\* descriptor is the argument as it was typed
UpgradeCmd(p) ==
    /\ pc[p] = "entry"
    /\ \E str \in ConStrs : Upgrade(p, str, sqlFiles, [path |-> "cli", checked |-> {}])
    /\ UNCHANGED <<badSQL, svcVars, conVars, faults, dbVars, idx, caller, existing, nrun, tx,
                   histVars>>

\* upgradeAll at the start of the service: the descriptor is what the config
\* service answers for the name of a directory under migrationsRoot
UpgradeAll(p) ==
    /\ pc[p] = "entry"
    /\ \E str \in ConStrs : Upgrade(p, str, sqlFiles, [path |-> "startup", checked |-> {}])
    /\ UNCHANGED <<badSQL, svcVars, conVars, faults, dbVars, idx, caller, existing, nrun, tx,
                   histVars>>

\* POST /upgrade/<dbName>: a name that validDBNameRegex does not match is
\* answered with 400 Bad Request; for another the descriptor is what the config
\* service answers for it
HandleUpgrade(p) ==
    /\ pc[p] = "entry"
    /\ \E dbName \in DbNames :
          IF ~validDBNameRegex(dbName)
          THEN UNCHANGED <<sqlFiles, dbStr, entry, pc, result>>
          ELSE \E str \in ConStrs :
                  Upgrade(p, str, sqlFiles, [path |-> "http", checked |-> {dbName}])
    /\ UNCHANGED <<badSQL, svcVars, conVars, faults, dbVars, idx, caller, existing, nrun, tx,
                   histVars>>

\* upgrade: what the error it returns names, the database name of the
\* descriptor in front of what the error of runMigrations carries
upgrade(p) == <<con.dbname>> \o result[p].info

\* a directory without .sql files and one with two, and a database in each of
\* the three states
ConnectLists == {<<>>, <<FileLegacy1, FileStd>>}
ConnectDatabases ==
    FreshDatabases
    \cup {d \in LegacyDatabases : d.ints = {1}}
    \cup {d \in CurrentDatabases : d.applied = {}}

InitConnect ==
    /\ StartFrom(ConnectLists, ConnectDatabases, 1, 0)
    /\ pc = [p \in Procs |-> "entry"]
    /\ dbStr = <<>>
    /\ entry = [path |-> "none", checked |-> {}]

NextConnect == UpgradeCmd(1) \/ UpgradeAll(1) \/ HandleUpgrade(1) \/ Run(1)

SpecConnect == InitConnect /\ [][NextConnect]_vars

----------------------------------------------------------------------------
(* The service: serviceCmd and upgradeAll *)

NoEffects == [f \in KnownFiles |-> 0]

\* a database on the server: its schema_migrations table, and whether the
\* server has the database at all
Missing == [type |-> <<>>, ints |-> {}, names |-> {}, effects |-> NoEffects, exists |-> FALSE]
Albion(I) == [type |-> TypeInteger, ints |-> I, names |-> {}, effects |-> NoEffects,
              exists |-> TRUE]
Empty == [type |-> TypeVarchar, ints |-> {}, names |-> {}, effects |-> NoEffects,
          exists |-> TRUE]

\* what ReadDir may find under migrationsRoot: a plain file; a directory for
\* which the config service has no descriptor; directories with migrations
\* for a database that does not exist yet, for one under the Albion system
\* at the version of the files or at a later one, and for one of this
\* system; and a directory without .sql files
DirEntries ==
    {[isDir |-> FALSE, lookup |-> FALSE, conn |-> <<>>, files |-> <<>>, database |-> Missing],
     [isDir |-> TRUE, lookup |-> FALSE, conn |-> <<>>, files |-> <<FileStd>>,
      database |-> Empty],
     [isDir |-> TRUE, lookup |-> TRUE, conn |-> ConStr, files |-> <<FileLegacy1, FileStd>>,
      database |-> Missing],
     [isDir |-> TRUE, lookup |-> TRUE, conn |-> ConStr, files |-> <<FileLegacy1, FileStd>>,
      database |-> Albion({1})],
     [isDir |-> TRUE, lookup |-> TRUE, conn |-> ConStr, files |-> <<FileLegacy1, FileStd>>,
      database |-> Albion({2})],
     [isDir |-> TRUE, lookup |-> TRUE, conn |-> ConStr, files |-> <<FileStd>>,
      database |-> Empty],
     [isDir |-> TRUE, lookup |-> TRUE, conn |-> ConStr, files |-> <<>>, database |-> Missing]}

DirLists == UNION {[1..n -> DirEntries] : n \in 1..MaxDirs}

\* the database the run works on, as the server holds it
Stored == [type |-> dbType, ints |-> dbInts, names |-> dbNames, effects |-> effects,
           exists |-> dbExists]

\* upgrade has been called for the entry the loop is at
Loaded == cur > 0 /\ dirs[cur].isDir /\ dirs[cur].lookup

\* a loop that goes on to the next entry whatever upgrade has returned
UpgradeNeverFailed(p) == FALSE

\* if err := upgrade(logfile, conn, migrationsDir); err != nil
UpgradeFailed(p) == Loaded /\ result[p].kind # "ok"

\* serviceCmd: the call of upgradeAll, which reads migrationsRoot
ServiceCmd(p) ==
    /\ pc[p] = "serviceCmd"
    /\ \E readable \in BOOLEAN :
          IF readable
          THEN Goto(p, "upgradeAll") /\ UNCHANGED result
          ELSE /\ Goto(p, "exit")
               /\ result' = [result EXCEPT ![p] = [NoResult EXCEPT !.kind = "readdir",
                                                                   !.at = pc[p]]]
    /\ UNCHANGED <<envVars, conVars, faults, dbVars, idx, caller, existing, nrun, tx, histVars>>

\* upgradeAll: the loop over the entries is at its head.  An error of the
\* upgrade just made is returned; after the last entry nil is returned;
\* else the next entry is taken: a plain file is passed over, an error of
\* getDBConnection is returned, and for a descriptor upgrade is called on
\* the directory and the database of that entry
UpgradeAllDir(p) ==
    /\ pc[p] = "upgradeAll"
    /\ store' = IF Loaded THEN [store EXCEPT ![cur] = Stored] ELSE store
    /\ IF UpgradeFailed(p)
       THEN /\ Goto(p, "exit")
            /\ UNCHANGED <<sqlFiles, dbStr, entry, cur, result, dbVars, dbExists>>
       ELSE IF cur = Len(dirs)
       THEN /\ Goto(p, "listen")
            /\ UNCHANGED <<sqlFiles, dbStr, entry, cur, result, dbVars, dbExists>>
       ELSE /\ cur' = cur + 1
            /\ LET f == dirs[cur + 1]
               IN IF ~f.isDir
                  THEN UNCHANGED <<sqlFiles, dbStr, entry, pc, result, dbVars, dbExists>>
                  ELSE IF ~f.lookup
                  THEN /\ Goto(p, "exit")
                       /\ result' = [result EXCEPT ![p] = [NoResult EXCEPT !.kind = "lookup",
                                                                           !.at = pc[p]]]
                       /\ UNCHANGED <<sqlFiles, dbStr, entry, dbVars, dbExists>>
                  ELSE /\ dbType' = store[cur + 1].type
                       /\ dbInts' = store[cur + 1].ints
                       /\ dbNames' = store[cur + 1].names
                       /\ effects' = store[cur + 1].effects
                       /\ dbExists' = store[cur + 1].exists
                       /\ switched' = {}
                       /\ Upgrade(p, f.conn, f.files, [path |-> "startup", checked |-> {}])
    /\ UNCHANGED <<badSQL, dirs, listening, created, handles, db, faults, idx, caller, existing,
                   nrun, tx, histVars>>

\* serviceCmd after upgradeAll has returned nil: the handlers are set and
\* http.ListenAndServe is called
ListenAndServe(p) ==
    /\ pc[p] = "listen"
    /\ listening' = TRUE
    /\ Goto(p, "serving")
    /\ UNCHANGED <<sqlFiles, badSQL, dbStr, entry, dirs, cur, store, conVars, faults, dbVars,
                   idx, caller, existing, nrun, tx, result, histVars>>

\* migrator serve <port>: no SQL is rejected by the database; statements may
\* fail from outside
InitService ==
    /\ dirs \in DirLists
    /\ cur = 0
    /\ store = [i \in 1..Len(dirs) |-> dirs[i].database]
    /\ listening = FALSE
    /\ sqlFiles = <<>>
    /\ badSQL = {}
    /\ faults = 0
    /\ dbType = <<>>
    /\ dbInts = {}
    /\ dbNames = {}
    /\ effects = NoEffects
    /\ dbExists = FALSE
    /\ switched = {}
    /\ NoRuns
    /\ pc = [p \in Procs |-> "serviceCmd"]
    /\ dbStr = <<>>
    /\ entry = [path |-> "none", checked |-> {}]

NextService == ServiceCmd(1) \/ UpgradeAllDir(1) \/ ListenAndServe(1) \/ Run(1)

SpecService == InitService /\ [][NextService]_vars

----------------------------------------------------------------------------
(* Claims *)

Names == NamesOf(Range(sqlFiles))

LegacyFiles == {f \in Range(sqlFiles) : isLegacy(f)}

StandardFiles == Range(sqlFiles) \ LegacyFiles

Occurrences(seq, x) == Cardinality({i \in 1..Len(seq) : seq[i] = x})

\* C1: after a run that ended without error, the next run over the same file
\* list starts on the database that run left, sends the SQL of no file to the
\* database, and leaves the table and its rows as they were.
Idempotence ==
    \A p \in Procs :
        (prev[p].result.kind = "ok" /\ pc[p] # "idle") =>
            /\ startDB[p] = prev[p].end
            /\ executed[p] = <<>>
            /\ dbType = startDB[p].type
            /\ dbNames = startDB[p].names

IdempotenceWitness ==
    /\ pc[1] = "done"
    /\ result[1].kind = "ok"
    /\ prev[1].result.kind = "ok"
    /\ Len(prev[1].committed) >= 2

\* C2: the files whose SQL one run sends to the database, legacy replay and
\* apply loop together, are strictly ascending in the lexical order of their
\* basenames.
ExecutedInLexicalOrder ==
    \A p \in Procs : \A i, j \in 1..Len(executed[p]) :
        i < j => LexLess(Base(executed[p][i]), Base(executed[p][j]))

\* a run that began on an Albion table whose largest version is not the
\* largest legacy version of the files (as maxLegacyMigrationVersion finds it)
LegacyMismatch(p) ==
    /\ startDB[p].type = TypeInteger
    /\ startDB[p].ints # {}
    /\ SetMax(startDB[p].ints) # maxLegacyMigrationVersion(sqlFiles)

\* C3: on an Albion table whose largest version differs from the largest legacy
\* version of the files, the run never gets past the check of the switchover:
\* the database stays as it was, no SQL is sent, and unless an outside event
\* ended the run first it ends with the mismatch error carrying both numbers.
SwitchoverVersionMismatch ==
    \A p \in Procs :
        (pc[p] # "idle" /\ LegacyMismatch(p)) =>
            /\ pc[p] \in {"connect", "connectRoot", "createDatabase", "reconnect",
                         "bootstrap", "readMax", "done"}
            /\ Database = startDB[p]
            /\ executed[p] = <<>>
            /\ (pc[p] = "done" /\ faults = 0) =>
                  /\ result[p].kind = "mismatch"
                  /\ result[p].info = <<maxLegacyMigrationVersion(sqlFiles),
                                        SetMax(startDB[p].ints)>>

SwitchoverVersionMismatchWitness ==
    /\ pc[1] = "done"
    /\ LegacyMismatch(1)
    /\ result[1].kind = "mismatch"
    /\ LegacyFiles # {}

\* a run that began on an Albion table whose largest version is the largest
\* legacy version of the files
LegacyMatch(p) ==
    /\ startDB[p].type = TypeInteger
    /\ startDB[p].ints # {}
    /\ SetMax(startDB[p].ints) = maxLegacyMigrationVersion(sqlFiles)

\* C4: on an Albion table whose largest version equals the largest legacy
\* version of the files the switchover succeeds (no outside event given), and
\* when it returns the table has the string column and holds exactly the
\* lowercased names of the legacy files.
SwitchoverSucceeds ==
    \A p \in Procs :
        (pc[p] # "idle" /\ LegacyMatch(p) /\ faults = 0) =>
            /\ pc[p] = "done" => dbType = TypeVarchar
            /\ pc[p] = "getMigrations" =>
                  dbType = TypeVarchar /\ dbNames = NamesOf(LegacyFiles)

FreshRun ==
    \A p \in Procs :
        (pc[p] = "done" /\ result[p].kind = "ok" /\ startDB[p].type = <<>>) =>
            /\ dbType = TypeVarchar
            /\ \A f \in Range(sqlFiles) : Occurrences(executed[p], f) = 1
            /\ \A f \in Range(sqlFiles) : effects[f] = 1
            /\ Len(executed[p]) = Len(sqlFiles)
            /\ dbNames = Names

FreshRunWitness ==
    /\ pc[1] = "done"
    /\ result[1].kind = "ok"
    /\ startDB[1].type = <<>>
    /\ LegacyFiles # {}
    /\ Cardinality(StandardFiles) = 2

FreshRunNoLegacyWitness ==
    /\ pc[1] = "done"
    /\ result[1].kind = "ok"
    /\ startDB[1].type = <<>>
    /\ LegacyFiles = {}
    /\ sqlFiles # <<>>

----------------------------------------------------------------------------
(* Failure and resumption *)

\* the files runLegacyMigrations has replayed in a run that began without a table
LegacyReplayed(p) ==
    IF startDB[p].type = <<>> THEN SelectSeq(sqlFiles, isLegacy) ELSE <<>>

\* the files of positions from..to that the loop of the run holds to be missing
Pending(from, to, have) ==
    SelectSeq(SubSeq(sqlFiles, from, to), LAMBDA f : migrationNameFromFile(f) \notin have)

\* the run has ended because the SQL or the INSERT of the file at idx failed
\* inside the apply loop
FailedInApplyLoop(p) ==
    /\ pc[p] = "done"
    /\ result[p].kind = "driver"
    /\ result[p].at \in {"rmExec", "rmInsert"}
    /\ result[p].loop = "applyLoop"

\* what C7 says of every part but the row of migration k
PartialFailureRest(p) ==
    LET k == sqlFiles[idx[p]]
    IN /\ committed[p] = LegacyReplayed(p) \o Pending(1, idx[p] - 1, existing[p])
       /\ \A f \in Range(committed[p]) :
             /\ effects[f] = startDB[p].effects[f] + 1
             /\ migrationNameFromFile(f) \in dbNames
       /\ effects[k] = startDB[p].effects[k]
       /\ executed[p] = Append(committed[p], k)

\* C7 as it is written: when pending migration k fails at its SQL or at its
\* INSERT, the migrations before it stay committed, no later one is attempted,
\* and neither the effects nor the row of migration k are present.
PartialFailureNoRow ==
    \A p \in Procs :
        FailedInApplyLoop(p) =>
            /\ PartialFailureRest(p)
            /\ migrationNameFromFile(sqlFiles[idx[p]]) \notin dbNames

\* C7 amended: the transaction of migration k has added no row, so the table
\* holds the rows read at the start of the loop and those of the migrations
\* committed before k; and a file whose SQL was sent and not committed is the
\* one in progress or the one that ended the run.
PartialFailure ==
    \A p \in Procs :
        /\ pc[p] # "idle" =>
              \/ executed[p] = committed[p]
              \/ /\ idx[p] \in DOMAIN sqlFiles
                 /\ executed[p] = Append(committed[p], sqlFiles[idx[p]])
                 /\ \/ pc[p] \in {"rmInsert", "rmCommit"}
                    \/ pc[p] = "done" /\ result[p].kind \in {"driver", "aborted"}
        /\ FailedInApplyLoop(p) =>
              /\ PartialFailureRest(p)
              /\ dbNames = existing[p] \cup NamesOf(Range(committed[p]))

\* the second of three pending migrations is rejected by the database
PartialFailureWitness ==
    /\ FailedInApplyLoop(1)
    /\ result[1].at = "rmExec"
    /\ faults = 0
    /\ Len(Pending(1, idx[1] - 1, existing[1])) = 1
    /\ Len(Pending(idx[1] + 1, Len(sqlFiles), existing[1])) = 1

\* the INSERT of a migration fails on the key of an earlier file of the same name
PartialFailureDuplicateKey ==
    /\ FailedInApplyLoop(1)
    /\ result[1].at = "rmInsert"
    /\ faults = 0

\* the run before this one failed in the apply loop at a file the database
\* rejected; the file has been corrected and no outside event has happened
ResumedAfterFix(p) ==
    /\ pc[p] = "done"
    /\ faults = 0
    /\ badSQL = {}
    /\ prev[p].result.kind = "driver"
    /\ prev[p].result.at = "rmExec"
    /\ prev[p].result.loop = "applyLoop"

FailedFile(p) == prev[p].executed[Len(prev[p].executed)]

IndexOf(f) == CHOOSE i \in 1..Len(sqlFiles) : sqlFiles[i] = f

\* migration k and the migrations that were pending after it in the failed run
FromFailure(p) ==
    <<FailedFile(p)>> \o Pending(IndexOf(FailedFile(p)) + 1, Len(sqlFiles), prev[p].existing)

IsPrefix(a, b) == Len(a) <= Len(b) /\ a = SubSeq(b, 1, Len(a))

\* C8 as it is written: the run after the correction executes exactly
\* migration k and the pending migrations after it, in order, none of those
\* the failed run committed, and ends with the name of every file applied.
ResumptionExact ==
    \A p \in Procs :
        ResumedAfterFix(p) =>
            /\ executed[p] = FromFailure(p)
            /\ Range(executed[p]) \cap Range(prev[p].committed) = {}
            /\ Names \subseteq dbNames

\* C8 amended: of migration k and the pending migrations after it, the run
\* after the correction skips those whose name the failed run has recorded
\* under a file of the same lowercased name, and executes the others in order;
\* it ends without error, having executed all of them and with every name
\* applied, unless the INSERT of one of them meets the key of a file of the
\* same name, which ends the run.
Resumption ==
    \A p \in Procs :
        ResumedAfterFix(p) =>
            LET recorded == NamesOf(Range(prev[p].committed))
                expected == SelectSeq(FromFailure(p),
                                      LAMBDA f : migrationNameFromFile(f) \notin recorded)
            IN /\ IsPrefix(executed[p], expected)
               /\ Range(executed[p]) \cap Range(prev[p].committed) = {}
               /\ \/ /\ result[p].kind = "ok"
                     /\ executed[p] = expected
                     /\ committed[p] = expected
                     /\ Names \subseteq dbNames
                  \/ /\ result[p].kind = "driver"
                     /\ result[p].at = "rmInsert"
                     /\ executed[p] # <<>>
                     /\ migrationNameFromFile(executed[p][Len(executed[p])])
                            \in NamesOf(Range(committed[p]))

\* the failed run committed one migration; the run after the correction
\* executes the corrected one and the one after it
ResumptionWitness ==
    /\ ResumedAfterFix(1)
    /\ result[1].kind = "ok"
    /\ Len(prev[1].committed) = 1
    /\ Len(executed[1]) = 2
    /\ executed[1][1] = FailedFile(1)

AllNames == NamesOf(AllFiles)

FilesNamed == [n \in AllNames |-> {f \in AllFiles : migrationNameFromFile(f) = n}]

\* C9: in every committed state of a database with the table of this system,
\* also after a process was killed between two steps, a name is in the table
\* by runMigration (not by the switchover) exactly if the SQL of a file of
\* that name is committed; without that table no SQL is committed.
PerMigrationAtomicity ==
    IF dbType = TypeVarchar
    THEN \A n \in AllNames :
            (n \in dbNames \ switched) <=> (\E f \in FilesNamed[n] : effects[f] > 0)
    ELSE \A f \in AllFiles : effects[f] = 0

\* the process was killed after the INSERT and before the commit
PerMigrationAtomicityWitness ==
    /\ pc[1] = "done"
    /\ result[1].kind = "aborted"
    /\ result[1].at = "rmCommit"
    /\ committed[1] # <<>>

\* C10: whatever two concurrent runs do, the SQL of no file is committed more
\* than once and no row of a committed migration is lost from the table of
\* this system.
ConcurrentRunsHarmless ==
    \A n \in AllNames : \A f \in FilesNamed[n] :
        /\ effects[f] <= 1
        /\ (effects[f] = 1 /\ dbType = TypeVarchar) => n \in dbNames

----------------------------------------------------------------------------
(* Detection of the state of the database *)

\* where a run is, or where it was when it ended with an error
Where(p) == IF pc[p] = "done" THEN result[p].at ELSE pc[p]

BeforeBootstrap == {"entry", "idle", "connect", "connectRoot", "createDatabase", "reconnect"}
FreshPath == {"createTable", "legacyLoop"}
SwitchoverPath == {"readMax", "swBegin", "swDrop", "swInsert", "swCommit"}

\* the query of bootstrap has been answered
Detected(p) == pc[p] # "idle" /\ Where(p) \notin BeforeBootstrap \cup {"bootstrap"}

\* C11: a run that finds no schema_migrations table creates the table of this
\* system and then replays the legacy files; one that finds the varchar column
\* ("character varying") leaves bootstrap with the database as it was; one that
\* finds another type goes through the switchover; and when the query itself
\* fails the run ends there with the database as it was.
StateDetection ==
    \A p \in Procs :
        /\ (pc[p] = "done" /\ result[p].at = "bootstrap") => Database = startDB[p]
        /\ Detected(p) =>
              IF startDB[p].type = <<>>
              THEN /\ Where(p) \notin SwitchoverPath
                   /\ Where(p) = "createTable" \/ dbType = TypeVarchar
                   /\ (Where(p) \in {"getMigrations", "applyLoop"} \/ caller[p] = "applyLoop")
                         => IsPrefix(SelectSeq(sqlFiles, isLegacy), committed[p])
              ELSE IF startDB[p].type = TypeVarchar
              THEN /\ Where(p) \notin FreshPath \cup SwitchoverPath
                   /\ caller[p] # "legacyLoop"
                   /\ Where(p) = "getMigrations" => Database = startDB[p]
              ELSE /\ Where(p) \notin FreshPath
                   /\ caller[p] # "legacyLoop"
                   /\ Where(p) \in SwitchoverPath \/ dbType = TypeVarchar

\* a run on a database of this system that holds rows has left bootstrap
StateDetectionWitness ==
    /\ pc[1] = "getMigrations"
    /\ startDB[1].type = TypeVarchar
    /\ dbNames # {}

\* a run has found no table, has created it and replays the legacy files
StateDetectionFreshWitness ==
    /\ pc[1] = "legacyLoop"
    /\ startDB[1].type = <<>>
    /\ committed[1] # <<>>

\* a run has found the Albion table and is inside the switchover
StateDetectionLegacyWitness ==
    /\ pc[1] = "swInsert"
    /\ startDB[1].type = TypeInteger

\* the query of bootstrap has failed
StateDetectionErrorWitness ==
    /\ pc[1] = "done"
    /\ result[1].kind = "inspect"

\* C12: in runs that follow one another a database with the table of this
\* system keeps it (it never has the Albion table or no table again), and the
\* transaction of the switchover commits only on an Albion table and leaves
\* the table of this system: it commits at most once.
OneWayTransitions ==
    [][/\ dbType = TypeVarchar => dbType' = TypeVarchar
       /\ dbExists => dbExists'
       /\ \A p \in Procs :
             (pc[p] = "swCommit" /\ pc'[p] = "getMigrations")
                => (dbType = TypeInteger /\ dbType' = TypeVarchar)]_vars

\* a switchover has committed in the run before, and the run after it has ended
OneWayTransitionsWitness ==
    /\ pc[1] = "done"
    /\ result[1].kind = "ok"
    /\ prev[1].result.kind = "ok"
    /\ prev[1].start.type = TypeInteger
    /\ prev[1].end.type = TypeVarchar
    /\ dbType = TypeVarchar

\* C13: a run has printed "Database is up to date" exactly if it ended without
\* error and sent the SQL of no file to the database, the legacy replay of
\* bootstrap included.
UpToDateReported ==
    \A p \in Procs :
        pc[p] = "done" =>
            (result[p].upToDate <=> (result[p].kind = "ok" /\ executed[p] = <<>>))

\* C14: when the SQL of a migration or its INSERT fails, the error upgrade
\* returns names the file: its path, its base name or its migration name.
FailedMigrationNamed ==
    \A p \in Procs :
        (pc[p] = "done" /\ result[p].kind = "driver" /\ result[p].at \in {"rmExec", "rmInsert"})
            => \E i \in 1..Len(upgrade(p)) :
                  upgrade(p)[i] \in {sqlFiles[idx[p]], Base(sqlFiles[idx[p]]),
                                     migrationNameFromFile(sqlFiles[idx[p]])}

----------------------------------------------------------------------------
(* Connection descriptors and connections *)

Colons(str) == Cardinality({i \in 1..Len(str) : str[i] = ":"})

\* what stands in front of the first ":" of a string that has one
FirstField(str) ==
    SubSeq(str, 1, (CHOOSE i \in 1..Len(str) :
                       str[i] = ":" /\ \A j \in 1..(i - 1) : str[j] # ":") - 1)

\* six fields, the first of them "postgres"
SixFieldsPostgres(str) == Colons(str) = 5 /\ FirstField(str) = Postgres

\* a descriptor has been handed to upgrade
Called(p) == pc[p] # "entry"

\* C15: parseDBConStr returns no error exactly for six fields of which the
\* first is "postgres", and then the six fields of the descriptor are those of
\* the string in their order; on any other string runMigrations ends with the
\* error, having opened no handle and sent no statement.
ParseDescriptor ==
    \A p \in Procs :
        Called(p) =>
            LET r == parseDBConStr(dbStr)
                c == r.con
            IN /\ (r.err = "nil") <=> SixFieldsPostgres(dbStr)
               /\ r.err = "nil" =>
                     /\ Join(<<c.driver, c.host, c.port, c.dbname, c.user, c.password>>, ":")
                            = dbStr
                     /\ \A f \in {c.driver, c.host, c.port, c.dbname, c.user, c.password} :
                            Colons(f) = 0
               /\ (pc[p] # "idle" /\ ~SixFieldsPostgres(dbStr)) =>
                     /\ pc[p] = "done"
                     /\ result[p].kind \in {"parts", "driver"}
                     /\ handles[p] = <<>>
                     /\ db[p] = 0
                     /\ created[p] = <<>>
                     /\ executed[p] = <<>>
                     /\ Database = startDB[p]
               /\ (pc[p] \notin {"idle", "done"}) => SixFieldsPostgres(dbStr)

\* a run on a descriptor of six fields whose driver is not "postgres" has ended
ParseDescriptorWitness ==
    /\ pc[1] = "done"
    /\ Colons(dbStr) = 5
    /\ result[1].kind = "driver"

\* a run on a descriptor of seven fields has ended
ParseDescriptorPartsWitness ==
    /\ pc[1] = "done"
    /\ Colons(dbStr) = 6
    /\ result[1].kind = "parts"

\* a run on an accepted descriptor holds a connection
ParseDescriptorAcceptedWitness ==
    /\ pc[1] = "bootstrap"
    /\ SixFieldsPostgres(dbStr)
    /\ con.password = <<>>

\* the connection strings sql.Open has been given for the database of the
\* descriptor
TargetStrings(p) ==
    {handles[p][i].dsn : i \in {j \in 1..Len(handles[p]) : handles[p][j].to = con.dbname}}

\* what C16 says of every option but the port
ConStrRest(dsn) ==
    /\ Contains(dsn, HostOpt \o con.host)
    /\ Contains(dsn, DbnameOpt \o con.dbname)
    /\ Contains(dsn, UserOpt \o con.user)
    /\ Contains(dsn, PasswordOpt) <=> con.password # <<>>
    /\ con.password # <<>> => Contains(dsn, PasswordOpt \o con.password)
    /\ Contains(dsn, SslmodeOpt \o Disable)

\* C16 as it is written: the connection string holds the port option exactly
\* when the port field is not empty.
ConStrRoundTripNonEmptyPort ==
    \A p \in Procs : \A dsn \in TargetStrings(p) :
        /\ ConStrRest(dsn)
        /\ Contains(dsn, PortOpt) <=> con.port # <<>>

\* C16 amended: the connection string of an accepted descriptor holds host,
\* dbname and user, the port option with the port exactly when the port field
\* is neither empty nor "0", the password option with the password exactly
\* when the password field is not empty, and sslmode=disable.
ConStrRoundTrip ==
    \A p \in Procs : \A dsn \in TargetStrings(p) :
        /\ ConStrRest(dsn)
        /\ Contains(dsn, PortOpt) <=> con.port \notin {<<>>, <<"0">>}
        /\ con.port \notin {<<>>, <<"0">>} => Contains(dsn, PortOpt \o con.port)

\* a handle has been opened for a descriptor with port 0 and a password
ConStrRoundTripWitness ==
    /\ db[1] # 0
    /\ con.port = <<"0">>
    /\ con.password # <<>>
    /\ TargetStrings(1) # {}

\* host:dbname of the descriptor
Identity == con.host \o <<":">> \o con.dbname

\* the handle of a run to the database "postgres", 0 if it has none
RootHandle(p) ==
    LET js == {j \in 1..Len(handles[p]) : Contains(handles[p][j].dsn, DbnameOpt \o Postgres)}
    IN IF js = {} THEN 0 ELSE CHOOSE j \in js : TRUE

\* C17: when the database of the descriptor answers the dummy query,
\* connectOrCreate returns the first handle and sends no CREATE DATABASE;
\* else the handle it returns was opened after one to "postgres", over which
\* CREATE DATABASE with the name of the descriptor was sent once and which is
\* closed; and when a step of it fails it returns no handle, the handle to
\* "postgres" is closed, and the error carries host:dbname.
ConnectOrCreate ==
    \A p \in Procs :
        (Called(p) /\ pc[p] # "idle" /\ con.dbname # Postgres) =>
            /\ db[p] = 1 =>
                  /\ created[p] = <<>>
                  /\ startDB[p].type # <<>> \/ dbExists
                  /\ Contains(handles[p][1].dsn, DbnameOpt \o con.dbname)
            /\ db[p] > 1 =>
                  /\ created[p] = <<con.dbname>>
                  /\ RootHandle(p) = db[p] - 1
                  /\ ~handles[p][db[p] - 1].open
                  /\ Contains(handles[p][db[p]].dsn, DbnameOpt \o con.dbname)
            /\ db[p] # 0 => (pc[p] = "done" \/ handles[p][db[p]].open)
            /\ Where(p) \notin BeforeBootstrap => db[p] # 0
            /\ (pc[p] = "done" /\ result[p].at \in {"connectRoot", "createDatabase", "reconnect"}) =>
                  /\ db[p] = 0
                  /\ RootHandle(p) # 0 => ~handles[p][RootHandle(p)].open
                  /\ \E i \in 1..Len(result[p].info) : result[p].info[i] = Identity
                  /\ result[p].at = "connectRoot" => created[p] = <<>>

\* the database did not exist: it has been created and the run holds the
\* handle opened after the CREATE DATABASE
ConnectOrCreateWitness ==
    /\ pc[1] = "bootstrap"
    /\ db[1] = 3
    /\ created[1] # <<>>

\* CREATE DATABASE has failed
ConnectOrCreateErrorWitness ==
    /\ pc[1] = "done"
    /\ result[1].kind = "create"
    /\ validDBNameRegex(con.dbname)

\* C18: when a run has returned, with or without an error, every handle it
\* opened is closed.
ConnectionsReleased ==
    \A p \in Procs :
        (pc[p] = "idle" /\ prev[p].result.kind \notin {"none", "aborted"}) =>
            \A i \in 1..Len(handles[p]) : ~handles[p][i].open

\* C19: the name in every CREATE DATABASE statement has been matched against
\* validDBNameRegex on the way into upgrade.
NameValidatedAtBoundary ==
    \A p \in Procs :
        \A i \in 1..Len(created[p]) :
            created[p][i] \in entry.checked /\ validDBNameRegex(created[p][i])

\* 0000-NNNN.sql with one to four decimal digits NNNN
LegacyName(base) ==
    /\ Len(base) \in 10..13
    /\ SubSeq(base, 1, 5) = Zeros \o <<"-">>
    /\ SubSeq(base, Len(base) - 3, Len(base)) = DotSql
    /\ \A i \in 6..(Len(base) - 4) : IsDigit(base[i])

\* C20: legacyMigrationVersion holds a file to be a legacy migration exactly
\* if its base name is 0000-NNNN.sql with one to four digits, and then the
\* version is the value of NNNN.
LegacyRecognition ==
    \A f \in Range(sqlFiles) :
        /\ legacyMigrationVersion(f).isLegacy <=> LegacyName(Base(f))
        /\ LegacyName(Base(f)) =>
              legacyMigrationVersion(f).version
                  = DecimalValue(SubSeq(Base(f), 6, Len(Base(f)) - 4))

----------------------------------------------------------------------------
(* The switchover transaction *)

\* the steps of the transaction of switchoverFromAlbion
SwitchoverSteps == {"swDrop", "swInsert", "swCommit"}

\* C21: when a run has ended in a step of the switchover transaction (the
\* DROP and CREATE, an INSERT of a legacy name, the commit), it has ended with
\* an error, no transaction is left open, the database holds the Albion table
\* with the integer rows it had when the run began, and the loop of
\* runMigrations has not begun: the table has not been read and no SQL of a
\* file has been sent.
SwitchoverAllOrNothing ==
    \A p \in Procs :
        (pc[p] = "done" /\ result[p].at \in SwitchoverSteps) =>
            /\ result[p].kind \notin {"ok", "none"}
            /\ ~tx[p].open
            /\ startDB[p].type = TypeInteger
            /\ dbType = TypeInteger
            /\ dbInts = startDB[p].ints
            /\ dbNames = {}
            /\ effects = startDB[p].effects
            /\ existing[p] = {}
            /\ nrun[p] = 0
            /\ executed[p] = <<>>
            /\ committed[p] = <<>>

\* an INSERT of the switchover has failed after the DROP and CREATE
SwitchoverAllOrNothingWitness ==
    /\ pc[1] = "done"
    /\ result[1].at = "swInsert"
    /\ result[1].kind = "driver"
    /\ dbInts # {}

\* the commit of the switchover has failed
SwitchoverAllOrNothingCommitWitness ==
    /\ pc[1] = "done"
    /\ result[1].at = "swCommit"
    /\ result[1].kind = "driver"

\* the run is past the switchover
AfterSwitchover(p) ==
    pc[p] # "idle" /\ Where(p) \notin BeforeBootstrap \cup {"bootstrap"} \cup SwitchoverPath

\* the legacy versions among the files
LegacyVersions == {legacyMigrationVersion(f).version : f \in LegacyFiles}

\* below the largest version of the table, a version is missing from the table
\* or from the files
VersionGap(p) ==
    \E v \in 1..(SetMax(startDB[p].ints) - 1) :
        v \notin startDB[p].ints \/ v \notin LegacyVersions

\* C22: a run that began on an Albion table whose largest version is the
\* largest legacy version of the files does not end in the switchover, whatever
\* versions below the largest are missing from the table or from the files; and
\* past the switchover every legacy file, one whose version the table never
\* held included, is recorded without its SQL having been sent.
SwitchoverChecksOnlyMaxima ==
    \A p \in Procs :
        (pc[p] # "idle" /\ LegacyMatch(p)) =>
            /\ pc[p] = "done" => result[p].at \notin SwitchoverPath
            /\ AfterSwitchover(p) =>
                  /\ NamesOf(LegacyFiles) \subseteq dbNames
                  /\ switched = NamesOf(LegacyFiles)
                  /\ \A f \in LegacyFiles : Occurrences(executed[p], f) = 0 /\ effects[f] = 0

\* the same for file lists in which no two files have one migration name
SwitchoverChecksOnlyMaximaDistinctNames ==
    Cardinality(Names) = Len(sqlFiles) => SwitchoverChecksOnlyMaxima

\* a switchover has gone through although version 1 is in the files and was
\* never in the table
SwitchoverGapWitness ==
    /\ pc[1] = "done"
    /\ result[1].kind = "ok"
    /\ LegacyMatch(1)
    /\ VersionGap(1)
    /\ FileLegacy1 \in LegacyFiles
    /\ 1 \notin startDB[1].ints

----------------------------------------------------------------------------
(* A directory without .sql files *)

\* C23: when the directory holds no .sql file, every call of upgrade returns
\* the error "No SQL files found" and runMigrations is never called: no handle
\* is opened, no CREATE DATABASE and no other statement is sent, and the
\* server and the database stay as they were.
EmptyFileSet ==
    /\ [](sqlFiles = <<>> =>
             /\ entry.path # "none" => \E p \in Procs : result[p].kind = "nofiles"
             /\ \A p \in Procs :
                 /\ pc[p] = "entry"
                 /\ result[p].kind \in {"none", "nofiles"}
                 /\ startDB[p] = <<>>
                 /\ handles[p] = <<>>
                 /\ db[p] = 0
                 /\ created[p] = <<>>
                 /\ executed[p] = <<>>
                 /\ ~tx[p].open)
    /\ [][sqlFiles = <<>> => UNCHANGED <<conVars, dbVars>>]_vars

\* upgrade has returned the error for a descriptor that would have been accepted
EmptyFileSetWitness ==
    /\ sqlFiles = <<>>
    /\ result[1].kind = "nofiles"
    /\ SixFieldsPostgres(dbStr)
    /\ ~dbExists

----------------------------------------------------------------------------
(* Resumption after a failed bootstrap of a fresh database *)

\* the run before this one began without a table and ended in the replay of
\* the legacy files, at a file the database rejected; the file has been
\* corrected, no outside event has happened, and this run has ended
ResumedAfterFreshFailure(p) ==
    /\ pc[p] = "done"
    /\ faults = 0
    /\ badSQL = {}
    /\ prev[p].result.kind = "driver"
    /\ prev[p].result.at = "rmExec"
    /\ prev[p].result.loop = "legacyLoop"
    /\ prev[p].start.type = <<>>

\* the legacy files in front of the one the replay failed at
ReplayedBeforeFailure(p) ==
    SelectSeq(SubSeq(sqlFiles, 1, IndexOf(FailedFile(p)) - 1), isLegacy)

\* C24: the failed run has left the table of this system with exactly the names
\* of the legacy files in front of the k-th, and the run after the correction
\* sends the SQL of each of those files never and of every other file exactly
\* once, and ends with exactly the names of all files in the table.
FreshResumption ==
    \A p \in Procs :
        ResumedAfterFreshFailure(p) =>
            /\ prev[p].committed = ReplayedBeforeFailure(p)
            /\ prev[p].end.type = TypeVarchar
            /\ prev[p].end.names = NamesOf(Range(ReplayedBeforeFailure(p)))
            /\ startDB[p] = prev[p].end
            /\ \A f \in Range(sqlFiles) :
                   Occurrences(executed[p], f)
                       = IF f \in Range(ReplayedBeforeFailure(p)) THEN 0 ELSE 1
            /\ dbNames = Names

\* the same for file lists in which no two files have one migration name
FreshResumptionDistinctNames ==
    Cardinality(Names) = Len(sqlFiles) => FreshResumption

\* the replay failed at its second legacy file; the run after the correction
\* has executed that file and a file that is no legacy migration
FreshResumptionWitness ==
    /\ ResumedAfterFreshFailure(1)
    /\ result[1].kind = "ok"
    /\ Len(prev[1].committed) = 1
    /\ Len(executed[1]) = 2
    /\ executed[1][1] = FailedFile(1)
    /\ ~isLegacy(executed[1][2])

----------------------------------------------------------------------------
(* What a run executes, and what it does to the rows *)

\* the name of the file runMigration has been called with
Migname(p) == migrationNameFromFile(sqlFiles[idx[p]])

\* C25 as it is written: when runMigration is about to send the SQL of a file,
\* the name of the file is not in schema_migrations.
ExecutedOnlyWhenNotRecorded ==
    \A p \in Procs :
        (pc[p] = "rmExec" /\ idx[p] \in DOMAIN sqlFiles) => Migname(p) \notin dbNames

\* C25 amended: when runMigration is about to send the SQL of a file, the name
\* of the file is in schema_migrations only if an earlier file of the same run
\* with the same lowercased name has been committed; and in the loop of
\* runMigrations the name is not among the names read when the loop began.
ExecutedOnlyWhenNotRead ==
    \A p \in Procs :
        (pc[p] = "rmExec" /\ idx[p] \in DOMAIN sqlFiles) =>
            /\ Migname(p) \in dbNames => Migname(p) \in NamesOf(Range(committed[p]))
            /\ caller[p] = "applyLoop" => Migname(p) \notin existing[p]
            /\ sqlFiles[idx[p]] \notin Range(committed[p])

\* on a database that holds names of other files, a file is about to be executed
ExecutedOnlyWhenNotReadWitness ==
    /\ pc[1] = "rmExec"
    /\ caller[1] = "applyLoop"
    /\ startDB[1].type = TypeVarchar
    /\ existing[1] \cap Names # {}
    /\ committed[1] # <<>>
    /\ Migname(1) \notin dbNames

\* a file is about to be executed whose name an earlier file of the run has recorded
ExecutedOnlyWhenNotReadCollisionWitness ==
    /\ pc[1] = "rmExec"
    /\ caller[1] = "applyLoop"
    /\ Migname(1) \in dbNames

\* the migration names of each file list
ListNames == [l \in FileLists |-> NamesOf(Range(l))]

\* C26: in a run that began on the table of this system, the table keeps its
\* string column and every row it had when the run began, rows that are the
\* name of no file included; the rows added are names of files; and when the
\* run has ended without error the rows are those of the start and the names
\* of all files.
AppliedRowsOnlyAdded ==
    \A p \in Procs :
        (pc[p] # "idle" /\ startDB[p].type = TypeVarchar) =>
            LET all == startDB[p].names \cup ListNames[sqlFiles]
            IN /\ dbType = TypeVarchar
               /\ dbInts = {}
               /\ startDB[p].names \subseteq dbNames
               /\ dbNames \subseteq all
               /\ (pc[p] = "done" /\ result[p].kind = "ok") => dbNames = all

\* a run has ended without error on a table that held a row that is the name
\* of none of the files, and has added a row
AppliedRowsOnlyAddedWitness ==
    /\ pc[1] = "done"
    /\ result[1].kind = "ok"
    /\ startDB[1].type = TypeVarchar
    /\ startDB[1].names \ Names # {}
    /\ committed[1] # <<>>

\* a run has ended with an error after it had added a row
AppliedRowsOnlyAddedFailureWitness ==
    /\ pc[1] = "done"
    /\ result[1].kind = "driver"
    /\ startDB[1].type = TypeVarchar
    /\ startDB[1].names # {}
    /\ committed[1] # <<>>

----------------------------------------------------------------------------
(* An Albion table without rows *)

\* C27: a run that began on an Albion table without rows gets no further than
\* the reading of MAX(version): it ends there with the error "Unable to read
\* max legacy version" (or earlier with another error), whatever the files
\* are, and the table is as it was.
EmptyLegacyTable ==
    \A p \in Procs :
        (pc[p] # "idle" /\ startDB[p].type = TypeInteger /\ startDB[p].ints = {}) =>
            /\ Where(p) \in BeforeBootstrap \cup {"bootstrap", "readMax"}
            /\ Database = startDB[p]
            /\ ~tx[p].open
            /\ executed[p] = <<>>
            /\ pc[p] = "done" => result[p].kind \notin {"ok", "none"}
            /\ (pc[p] = "done" /\ result[p].at = "readMax") =>
                  result[p].kind \in {"readmax", "aborted"}

\* the run has ended with that error although no file is a legacy migration
\* and nothing has failed from outside
EmptyLegacyTableWitness ==
    /\ pc[1] = "done"
    /\ result[1].kind = "readmax"
    /\ faults = 0
    /\ startDB[1].type = TypeInteger
    /\ startDB[1].ints = {}
    /\ LegacyFiles = {}
    /\ maxLegacyMigrationVersion(sqlFiles) = 0

----------------------------------------------------------------------------
(* The start of the service *)

\* the database of entry i as the server holds it now
Now(i) == IF i = cur /\ Loaded THEN Stored ELSE store[i]

\* upgrade has returned nil for entry i: its database has the table of this
\* system with the name of every file of its directory
Upgraded(i) ==
    dirs[i].isDir =>
        /\ dirs[i].lookup
        /\ dirs[i].files # <<>>
        /\ Now(i).exists
        /\ Now(i).type = TypeVarchar
        /\ NamesOf(Range(dirs[i].files)) \subseteq Now(i).names
        /\ \A f \in Range(dirs[i].files) : Now(i).effects[f] = 1 \/ isLegacy(f)

\* C28: the loop of upgradeAll takes the entries one after the other in the
\* order of ReadDir; the databases of the entries it has not reached are as
\* they were, those of the entries it has passed are upgraded; it returns at
\* the first entry whose lookup or upgrade fails, and then the service does
\* not listen; and the service listens only when every entry has been passed.
StartupUpgrade ==
    /\ [](/\ cur \in 0..Len(dirs)
          /\ \A i \in 1..Len(dirs) :
                /\ i > cur => store[i] = dirs[i].database
                /\ i < cur => Upgraded(i)
                /\ i # cur => Now(i) = store[i]
          /\ pc[1] = "exit" =>
                /\ ~listening
                /\ cur = 0 \/ (dirs[cur].isDir /\ ~Upgraded(cur))
                /\ result[1].kind \notin {"ok", "none"}
          /\ pc[1] \in {"listen", "serving"} =>
                cur = Len(dirs) /\ \A i \in 1..Len(dirs) : Upgraded(i)
          /\ listening => pc[1] = "serving")
    /\ [][cur' \in {cur, cur + 1} /\ (listening => listening') /\ (pc[1] = "exit" => pc'[1] = "exit")]_vars

\* upgradeAll has returned at the second of three directories: the first is
\* upgraded, the third as it was
StartupUpgradeWitness ==
    /\ pc[1] = "exit"
    /\ Len(dirs) = 3
    /\ cur = 2
    /\ \A i \in 1..3 : dirs[i].isDir /\ dirs[i].lookup /\ dirs[i].files # <<>>
    /\ store[1] # dirs[1].database
    /\ dirs[3].database.type # TypeVarchar

\* the service listens after three databases have been upgraded
StartupUpgradeListeningWitness ==
    /\ listening
    /\ Len(dirs) = 3
    /\ \A i \in 1..3 : dirs[i].isDir /\ store[i] # dirs[i].database

====
